---- MODULE Spec2Model ----
(***************************************************************************)
(* Simulation core of notquiteparadise: entity/component store, activation *)
(* pass, turn scheduler, event bus and the entity event handlers.          *)
(***************************************************************************)
EXTENDS Integers, Sequences, FiniteSets, TLC

(***************************************************************************)
(* Bounds of the model                                                     *)
(***************************************************************************)
MapWidth == 6
MapHeight == 2
MaxTime == 31
MaxGodSkills == 1
MaxTiles == 2
MaxTrace == 2
MaxLifespan == 2
MaxTurnsTime == 10
MaxStoreTime == 30
MaxHeight == 2
MaxSkills == 2
MaxOpinion == 4
MaxDistance == 2
MaxSight == 2
InitStamina == 5
InitHealth == 60

(***************************************************************************)
(* Program constants                                                       *)
(***************************************************************************)
MAX_ACTIVATION_DISTANCE == 4
MoveTimeCost == 10
MonsterPassCost == 10
BasicAttackResourceCost == 5
BasicAttackTimeCost == 30
BasicAttackDamage == 25
INFINITE == 999

(***************************************************************************)
(* Entities, in creation order.  The player is created between two other   *)
(* actors; the god has neither Position nor Tracked.                       *)
(***************************************************************************)
CreationOrder == <<"actor_a", "player", "actor_b", "god">>
Entities == {CreationOrder[i] : i \in 1..Len(CreationOrder)}
CreatedAt(e) == CHOOSE i \in 1..Len(CreationOrder) : CreationOrder[i] = e
NoEntity == "none"

ActorEntities == {"actor_a", "player", "actor_b"}
GodEntities == {"god"}
PositionEntities == ActorEntities
ResourceEntities == ActorEntities \cup GodEntities
TrackedEntities == ActorEntities
KnowledgeEntities == ActorEntities
BehaviourEntities == ActorEntities \ {"player"}

Tiles == (0..(MapWidth - 1)) \X (0..(MapHeight - 1))
Directions == {d \in (-1..1) \X (-1..1) : d # <<0, 0>>}
TimeCosts == {MoveTimeCost, BasicAttackTimeCost}

Abs(n) == IF n < 0 THEN -n ELSE n
Max(a, b) == IF a >= b THEN a ELSE b
Range(s) == {s[i] : i \in 1..Len(s)}

VARIABLES position, is_active, tracked, resources, time, turn_queue,
          insert_order, turn_holder, game_state, log, last, activation,
          lifespan, scheduled, deleted, physicality, light_source, fov,
          game_map, knowledge, opinion

vars == <<position, is_active, tracked, resources, time, turn_queue,
          insert_order, turn_holder, game_state, log, last, activation,
          lifespan, scheduled, deleted, physicality, light_source, fov,
          game_map, knowledge, opinion>>

\* heights, light sources, fields of view and the masks of the map
vision_vars == <<physicality, light_source, fov, game_map>>

\* everything but the state of a running skill activation
world_vars == <<position, is_active, tracked, resources, time, turn_queue,
                insert_order, turn_holder, game_state, log, last,
                lifespan, scheduled, deleted, physicality, light_source, fov,
                game_map, knowledge, opinion>>

\* no exception is propagating
NoError == "no error"

(***************************************************************************)
(* The world as one record, so that handlers are functions on worlds.      *)
(* raised is the exception that is propagating, caught the exceptions that *)
(* were caught at the dispatch boundary during the running operation,      *)
(* events the events published, applied the steps of the skills used and   *)
(* names the results of get_name during it, recomputed the positions the   *)
(* player's field of view was recomputed from.  scheduled holds the entities *)
(* scheduled for deletion, deleted the entities that were removed.         *)
(***************************************************************************)
World ==
    [position |-> position, is_active |-> is_active, tracked |-> tracked,
     resources |-> resources, time |-> time, turn_queue |-> turn_queue,
     insert_order |-> insert_order, turn_holder |-> turn_holder,
     game_state |-> game_state, log |-> log,
     lifespan |-> lifespan, scheduled |-> scheduled, deleted |-> deleted,
     knowledge |-> knowledge, opinion |-> opinion,
     raised |-> NoError, caught |-> <<>>, events |-> <<>>, applied |-> <<>>,
     names |-> <<>>, attached |-> <<>>, recomputed |-> <<>>]

Commit(w) ==
    /\ position' = w.position
    /\ is_active' = w.is_active
    /\ tracked' = w.tracked
    /\ resources' = w.resources
    /\ time' = w.time
    /\ turn_queue' = w.turn_queue
    /\ insert_order' = w.insert_order
    /\ turn_holder' = w.turn_holder
    /\ game_state' = w.game_state
    /\ log' = w.log
    /\ activation' = activation
    /\ lifespan' = w.lifespan
    /\ scheduled' = w.scheduled
    /\ deleted' = w.deleted
    /\ knowledge' = w.knowledge
    /\ opinion' = w.opinion
    /\ UNCHANGED vision_vars

(***************************************************************************)
(* Entity store queries                                                    *)
(***************************************************************************)
get_player == "player"

entity_has_component(w, e, kind) ==
    CASE kind = "IsActive" -> e \in w.is_active
      [] kind = "Position" -> e \in DOMAIN w.position
      [] kind = "Tracked" -> e \in DOMAIN w.tracked
      [] kind = "Resources" -> e \in DOMAIN w.resources
      [] kind = "Knowledge" -> e \in DOMAIN w.knowledge
      [] kind = "Behaviour" -> e \in BehaviourEntities \ w.deleted
      [] kind = "IsGod" -> e \in GodEntities \ w.deleted
      [] kind = "Lifespan" -> e \in DOMAIN w.lifespan
      [] OTHER -> FALSE

\* no entity has a Lifespan component
NoLifespans == [e \in {} |-> 0]

exists(w, e) == e \in Entities \ w.deleted

\* the name in the Identity component, "not found" without one
get_name(w, e) == IF exists(w, e) THEN e ELSE "not found"

\* get_name is called and its result noted
Named(w, e) == [w EXCEPT !.names = Append(@, <<e, get_name(w, e)>>)]

Without(f, gone) == [e \in DOMAIN f \ gone |-> f[e]]

\* the entities leave the store with all their components
Removed(w, gone) ==
    [w EXCEPT !.position = Without(@, gone),
              !.tracked = Without(@, gone),
              !.resources = Without(@, gone),
              !.lifespan = Without(@, gone),
              !.knowledge = Without(@, gone),
              !.opinion = Without(@, gone),
              !.is_active = @ \ gone,
              !.deleted = @ \cup gone]

\* variant: the entity is removed at once
delete_at_once(w, e) ==
    IF e # NoEntity
    THEN IF exists(w, e) THEN Named(Removed(w, {e}), e) ELSE w
    ELSE w

\* variant: the entity is scheduled whether it is in the world or not
delete_unchecked(w, e) ==
    IF e # NoEntity
    THEN Named([w EXCEPT !.scheduled = @ \cup {e}], e)
    ELSE w

\* the entity is scheduled for deletion
delete(w, e) ==
    IF e # NoEntity
    THEN IF exists(w, e)
         THEN Named([w EXCEPT !.scheduled = @ \cup {e}], e)
         ELSE w
    ELSE w

\* the synchronisation point between two steps: the scheduled deletions
\* are applied
process_pending_deletions(w) ==
    [Removed(w, w.scheduled) EXCEPT !.scheduled = {}]

\* the function with the entity added or set anew
With(f, e, data) ==
    [x \in DOMAIN f \cup {e} |-> IF x = e THEN data ELSE f[x]]

\* add_component is called: noted with whether the entity holds the kind
Attached(w, e, kind) ==
    [w EXCEPT !.attached =
        Append(@, <<e, kind, entity_has_component(w, e, kind)>>)]

\* the component is attached to the entity; data is the new instance
add_component(w, e, kind, data) ==
    LET noted == Attached(w, e, kind)
    IN  CASE kind = "IsActive" -> [noted EXCEPT !.is_active = @ \cup {e}]
          [] kind = "Lifespan" -> [noted EXCEPT !.lifespan = With(@, e, data)]
          [] kind = "Knowledge" -> [noted EXCEPT !.knowledge = With(@, e, data)]
          [] OTHER -> noted

\* variant: the component stays on the entity
remove_component_kept(w, e, kind) == w

\* the component is detached from the entity
remove_component(w, e, kind) ==
    CASE kind = "IsActive" -> [w EXCEPT !.is_active = @ \ {e}]
      [] kind = "Lifespan" -> [w EXCEPT !.lifespan = Without(@, {e})]
      [] kind = "Knowledge" -> [w EXCEPT !.knowledge = Without(@, {e})]
      [] OTHER -> w

\* Knowledge(): no skill known
NewKnowledge == [skill_order |-> <<>>]

\* Opinion(): a god is created with no opinion of anyone
NoOpinions == [e \in {} |-> 0]

\* the actions that are judged, and the attitudes of a god towards them
JudgedActions == {"burn", "hit"}

get_god_attitudes_data(name) == [a \in {"burn"} |-> [opinion_change |-> 2]]

\* the gods with IsGod, Opinion and Identity, in the order of the store
Gods(w) == SelectSeq(CreationOrder, LAMBDA e : e \in DOMAIN w.opinion)

\* one round of the loop of judge_action.  The loop variable is named entity
\* as the parameter is, so inside the loop entity is the god of the round and
\* the entity that acted is out of reach
judged(w, god_entity, entity, action) ==
    LET attitudes == get_god_attitudes_data(god_entity)
        opinions == w.opinion[god_entity]
        rebound == god_entity
    IN  IF action \in DOMAIN attitudes
        THEN Named([w EXCEPT !.opinion[god_entity] =
                       With(opinions, rebound,
                            IF rebound \in DOMAIN opinions
                            THEN opinions[rebound]
                                     + attitudes[action].opinion_change
                            ELSE attitudes[action].opinion_change)],
                   rebound)
        ELSE w

RECURSIVE judge_action_from(_, _, _, _)
judge_action_from(w, entity, action, i) ==
    IF i > Len(Gods(w)) THEN w
    ELSE judge_action_from(judged(w, Gods(w)[i], entity, action),
                           entity, action, i + 1)

judge_action(w, entity, action) == judge_action_from(w, entity, action, 1)

\* variant: a Knowledge component is added whether the entity has one or not
learn_skill_adds(w, e, skill_name) ==
    LET added == add_component(w, e, "Knowledge", NewKnowledge)
    IN  IF entity_has_component(added, e, "Knowledge")
        THEN [added EXCEPT !.knowledge[e].skill_order = Append(@, skill_name)]
        ELSE added

learn_skill(w, e, skill_name) ==
    LET added == IF ~entity_has_component(w, e, "Knowledge")
                 THEN add_component(w, e, "Knowledge", NewKnowledge)
                 ELSE w
    IN  IF entity_has_component(added, e, "Knowledge")
        THEN [added EXCEPT !.knowledge[e].skill_order = Append(@, skill_name)]
        ELSE added

\* the kinds of the components create_actor gives to create, and the kinds
\* it adds to the entity afterwards
create_actor_created ==
    <<"IsActor", "Identity", "Position", "HasCombatStats", "Blocking",
      "People", "Homeland", "Savvy", "FOV", "Tracked", "Aesthetic">>

create_actor_added(is_player) ==
    <<"Interactions", "Knowledge", "Afflictions", "Resources",
      IF is_player THEN "IsPlayer" ELSE "Behaviour">>

\* the add_component calls of create_actor, each with whether the new
\* entity holds the kind by then
RECURSIVE create_actor_attached(_, _, _, _)
create_actor_attached(e, held, kinds, i) ==
    IF i > Len(kinds) THEN <<>>
    ELSE <<(<<e, kinds[i], kinds[i] \in held>>)>>
            \o create_actor_attached(e, held \cup {kinds[i]}, kinds, i + 1)

(***************************************************************************)
(* Visibility & activation: process_activations                           *)
(***************************************************************************)
ChebyshevDistance(p, q) == Max(Abs(p[1] - q[1]), Abs(p[2] - q[2]))

\* variant: the radius itself counts as in range
InActivationRangeInclusive(player_pos, pos) ==
    ChebyshevDistance(player_pos, pos) <= MAX_ACTIVATION_DISTANCE

InActivationRange(player_pos, pos) ==
    ChebyshevDistance(player_pos, pos) < MAX_ACTIVATION_DISTANCE

get_time(w) == w.time

\* variant: the tracked time is left as it was
SyncedTimeStale(w, e) == w.tracked[e]

SyncedTime(w, e) == get_time(w) + 1

NewlyActivated(w) ==
    {e \in DOMAIN w.position :
        /\ InActivationRange(w.position[get_player], w.position[e])
        /\ ~entity_has_component(w, e, "IsActive")}

OutOfRange(w) ==
    {e \in DOMAIN w.position :
        ~InActivationRange(w.position[get_player], w.position[e])}

\* variant: the loop over entities without a position is left out
NotPositionedDropped(w) == {}

NotPositioned(w) ==
    {e \in Entities \ w.deleted : ~entity_has_component(w, e, "Position")}

\* variant: the sync is made for every entity in range, active already or not
process_activations_resync_all(w) ==
    LET in_range == (DOMAIN w.position) \ OutOfRange(w)
    IN  [w EXCEPT
            !.is_active = (w.is_active \cup NotPositioned(w) \cup in_range)
                              \ OutOfRange(w),
            !.tracked = [e \in DOMAIN w.tracked |->
                            IF e \in in_range
                            THEN Max(w.tracked[e], get_time(w)) + 1
                            ELSE w.tracked[e]]]

\* for entity, (_,) in query.not_position: entities without a position must
\* be active
RECURSIVE activate_not_positioned(_, _)
activate_not_positioned(w, i) ==
    IF i > Len(CreationOrder) THEN w
    ELSE LET e == CreationOrder[i]
         IN  IF e \in NotPositioned(w) /\ ~entity_has_component(w, e, "IsActive")
             THEN activate_not_positioned(
                      add_component(w, e, "IsActive", TRUE), i + 1)
             ELSE activate_not_positioned(w, i + 1)

\* the entity close to the player is made active and its time synced
activated(w, e) ==
    LET added == add_component(w, e, "IsActive", TRUE)
    IN  IF entity_has_component(added, e, "Tracked")
        THEN [added EXCEPT !.tracked[e] = SyncedTime(w, e)]
        ELSE added

\* for entity, (pos,) in query.position: active if close to the player
RECURSIVE activate_in_range(_, _, _)
activate_in_range(w, player_pos, i) ==
    IF i > Len(CreationOrder) THEN w
    ELSE LET e == CreationOrder[i]
         IN  IF ~entity_has_component(w, e, "Position")
             THEN activate_in_range(w, player_pos, i + 1)
             ELSE IF InActivationRange(player_pos, w.position[e])
             THEN (IF ~entity_has_component(w, e, "IsActive")
                   THEN activate_in_range(activated(w, e), player_pos, i + 1)
                   ELSE activate_in_range(w, player_pos, i + 1))
             ELSE (IF entity_has_component(w, e, "IsActive")
                   THEN activate_in_range(remove_component(w, e, "IsActive"),
                                          player_pos, i + 1)
                   ELSE activate_in_range(w, player_pos, i + 1))

process_activations(w) ==
    activate_in_range(activate_not_positioned(w, 1),
                      w.position[get_player], 1)

(***************************************************************************)
(* Turn scheduler (chrono): queue ordered by time_spent, stable            *)
(***************************************************************************)
RemoveFromQueue(q, e) == SelectSeq(q, LAMBDA x : x # e)

\* variant: the entity is put at the back whatever its time_spent
InsertAtEnd(q, e, t) == Append(q, e)

\* variant: the entity goes in front of entries with an equal time_spent
RECURSIVE InsertBeforeEqual(_, _, _)
InsertBeforeEqual(q, e, t) ==
    IF q = <<>> THEN <<e>>
    ELSE IF t[Head(q)] < t[e]
         THEN <<Head(q)>> \o InsertBeforeEqual(Tail(q), e, t)
         ELSE <<e>> \o q

\* stable insertion: e goes behind every entry whose time_spent is <= its own
RECURSIVE InsertByTime(_, _, _)
InsertByTime(q, e, t) ==
    IF q = <<>> THEN <<e>>
    ELSE IF t[Head(q)] <= t[e]
         THEN <<Head(q)>> \o InsertByTime(Tail(q), e, t)
         ELSE <<e>> \o q

ActiveTracked(w) ==
    {e \in Entities : /\ entity_has_component(w, e, "IsActive")
                      /\ entity_has_component(w, e, "Tracked")}

RECURSIVE BuildQueue(_, _, _)
BuildQueue(w, i, q) ==
    IF i > Len(CreationOrder) THEN q
    ELSE LET e == CreationOrder[i]
         IN  IF e \in ActiveTracked(w)
             THEN BuildQueue(w, i + 1, InsertByTime(q, e, w.tracked))
             ELSE BuildQueue(w, i + 1, q)

get_turn_holder(w) == w.turn_holder
get_turn_queue(w) == w.turn_queue

next_turn(w) ==
    IF w.turn_queue = <<>>
    THEN [w EXCEPT !.turn_holder = NoEntity]
    ELSE LET holder == Head(w.turn_queue)
         IN  [w EXCEPT !.turn_holder = holder,
                       !.time = w.tracked[holder],
                       !.game_state = IF holder = get_player
                                      THEN "PLAYER_TURN" ELSE "ENEMY_TURN"]

build_new_turn_queue(w) ==
    LET members == SelectSeq(CreationOrder, LAMBDA e : e \in ActiveTracked(w))
    IN  next_turn([w EXCEPT !.turn_queue = BuildQueue(w, 1, <<>>),
                            !.insert_order = members])

end_turn(w, e) ==
    IF e \in Range(w.turn_queue)
    THEN next_turn([w EXCEPT
            !.turn_queue = InsertByTime(RemoveFromQueue(w.turn_queue, e), e,
                                        w.tracked),
            !.insert_order = Append(RemoveFromQueue(w.insert_order, e), e)])
    ELSE next_turn(w)

(***************************************************************************)
(* Events                                                                  *)
(***************************************************************************)
MoveEvent(w, e, dir, dist) ==
    [type |-> "MoveEvent", topic |-> "entity", entity |-> e,
     direction |-> dir, distance |-> dist, start_pos |-> w.position[e]]

UseSkillEvent(e, skill_name, start_pos, dir) ==
    [type |-> "UseSkillEvent", topic |-> "entity", entity |-> e,
     skill_name |-> skill_name, start_pos |-> start_pos, direction |-> dir]

EndTurnEvent(e, time_spent) ==
    [type |-> "EndTurnEvent", topic |-> "game", entity |-> e,
     time_spent |-> time_spent]

DieEvent(e) ==
    [type |-> "DieEvent", topic |-> "entity", dying_entity |-> e]

WantToUseSkillEvent(skill_number) ==
    [type |-> "WantToUseSkillEvent", topic |-> "entity",
     skill_number |-> skill_number]

ChangeGameStateEvent(new_game_state) ==
    [type |-> "ChangeGameStateEvent", topic |-> "game",
     new_game_state |-> new_game_state]

MessageEvent(message) ==
    [type |-> "MessageEvent", topic |-> "message", message |-> message]

\* subscribers in registration order, with the topics they subscribed to
Subscribers ==
    << [name |-> "entity_handler", topics |-> {"entity", "game"}],
       [name |-> "god_handler", topics |-> {"entity"}],
       [name |-> "game_handler", topics |-> {"game"}] >>

Logged(w, kind, who, ev) == [w EXCEPT !.log = Append(@, <<kind, who, ev.type>>)]

(***************************************************************************)
(* World map                                                               *)
(***************************************************************************)
Walls == {<<2, 1>>}

\* variant: a tile is returned for every position, on the map or not
get_tile_anywhere(pos) == pos

get_tile(pos) == IF pos \in Tiles THEN pos ELSE NoEntity

tile_has_tag(w, tile, tag, active_entity) ==
    CASE tag = "BLOCKED_MOVEMENT" -> tile \in Walls
      [] tag = "OTHER_ENTITY" ->
            \E e \in DOMAIN w.position :
                e # active_entity /\ w.position[e] = tile
      [] tag = "SELF" ->
            /\ active_entity \in DOMAIN w.position
            /\ w.position[active_entity] = tile
      [] OTHER -> FALSE

tile_has_tags(w, tile, tags, active_entity) ==
    \A tag \in tags : tile_has_tag(w, tile, tag, active_entity)

\* the tiles of the map at the offsets coords around a position
get_tiles(pos, coords) ==
    SelectSeq(<<pos>>, LAMBDA t : get_tile(t) # NoEntity)

(***************************************************************************)
(* Skills                                                                  *)
(***************************************************************************)
\* the skills of the library: basic_attack, and a skill whose definition
\* names no resource
SkillNames == {"basic_attack", "free_skill"}

get_skill_data(skill_name) ==
    [resource_type |-> IF skill_name = "free_skill" THEN "" ELSE "stamina",
     resource_cost |-> IF skill_name = "free_skill" THEN 0
                       ELSE BasicAttackResourceCost,
     time_cost |-> BasicAttackTimeCost,
     target_directions |-> Directions \cup {<<0, 0>>}]

KnownSkills(e) == <<"basic_attack">>

can_afford_cost(w, e, resource_type, cost) ==
    w.resources[e][resource_type] >= cost

pay_resource_cost(w, e, resource_type, cost) ==
    [w EXCEPT !.resources[e][resource_type] = @ - cost]

\* get_entitys_component gives None for an entity without Resources, and the
\* attribute access on None raises AttributeError
apply_damage(w, e, damage) ==
    IF entity_has_component(w, e, "Resources")
    THEN [w EXCEPT !.resources[e].health = @ - damage]
    ELSE [w EXCEPT !.raised = "AttributeError"]

\* what was done while a skill was used: the kind of step, the user, the
\* entity affected, the user's resource at that moment, the number of events
\* published until then, and the number of tiles selected (use) or the
\* damage dealt (damage)
Applied(w, kind, by, on, resource_type, n) ==
    [w EXCEPT !.applied =
        Append(@, <<kind, by, on, w.resources[by][resource_type],
                    Len(w.events), n>>)]

RECURSIVE DamageAll(_, _, _, _)
DamageAll(w, by, targets, damage) ==
    IF targets = {} THEN w
    ELSE LET e == CHOOSE x \in targets : TRUE
         IN  DamageAll(Applied(apply_damage(w, e, damage), "damage", by, e,
                               "stamina", damage),
                       by, targets \ {e}, damage)

\* the entities a damage effect reaches on the effected tiles
EffectTargets(w, effect, effected_tiles, ent) ==
    {e \in DOMAIN w.position :
        /\ \E i \in 1..Len(effected_tiles) :
              /\ w.position[e] = effected_tiles[i]
              /\ tile_has_tags(w, effected_tiles[i], effect.required_tags, ent)
        /\ e # ent
        /\ entity_has_component(w, e, "Resources")}

\* the effect succeeded when it reached an entity
process_effect_result(w, effect, effected_tiles, ent) ==
    EffectTargets(w, effect, effected_tiles, ent) # {}

process_effect(w, effect, effected_tiles, ent) ==
    DamageAll(w, ent, EffectTargets(w, effect, effected_tiles, ent), effect.damage)

BasicAttack_create_effects ==
    << [name |-> "damage", required_tags |-> {"OTHER_ENTITY"},
        damage |-> BasicAttackDamage,
        success_effects |-> <<>>, fail_effects |-> <<>>] >>

_process_result(result, effect) ==
    IF result /\ effect.success_effects # <<>> THEN effect.success_effects
    ELSE IF ~result /\ effect.fail_effects # <<>> THEN effect.fail_effects
    ELSE <<>>

\* the loop over the target tiles for one effect; a non-empty list of
\* follow-up effects is appended to the effects as one element
RECURSIVE BasicAttack_activate_tiles(_, _, _, _, _, _)
BasicAttack_activate_tiles(w, ent, effect, effects, target_tiles, i) ==
    IF i > Len(target_tiles) THEN [w |-> w, effects |-> effects]
    ELSE LET effected_tiles == get_tiles(target_tiles[i], <<0, 0>>)
             result == process_effect_result(w, effect, effected_tiles, ent)
             done == process_effect(w, effect, effected_tiles, ent)
             result_effect == _process_result(result, effect)
         IN  BasicAttack_activate_tiles(
                 done, ent, effect,
                 IF result_effect # <<>> THEN Append(effects, result_effect)
                 ELSE effects,
                 target_tiles, i + 1)

\* effects.pop() takes the last element of the list
RECURSIVE BasicAttack_activate_loop(_, _, _, _)
BasicAttack_activate_loop(w, ent, effects, target_tiles) ==
    IF effects = <<>> THEN w
    ELSE LET effect == effects[Len(effects)]
             rest == SubSeq(effects, 1, Len(effects) - 1)
         IN  IF target_tiles # <<>> /\ "name" \notin DOMAIN effect
             THEN [w EXCEPT !.raised = "AttributeError"]
             ELSE LET after == BasicAttack_activate_tiles(w, ent, effect, rest,
                                                          target_tiles, 1)
                  IN  BasicAttack_activate_loop(after.w, ent, after.effects,
                                                target_tiles)

BasicAttack_activate(w, ent, target_tiles) ==
    BasicAttack_activate_loop(w, ent, BasicAttack_create_effects, target_tiles)

BasicAttack_use(w, ent, use_tiles_and_directions) ==
    BasicAttack_activate(w, ent, use_tiles_and_directions)

\* variant: the tiles are not filtered by the tags the skill requires
get_use_tiles_unfiltered(w, ent, start_position, target_position) ==
    get_tiles(target_position, <<0, 0>>)

get_use_tiles_and_directions(w, ent, start_position, target_position) ==
    SelectSeq(get_tiles(target_position, <<0, 0>>),
              LAMBDA tile : tile_has_tags(w, tile, {"OTHER_ENTITY"}, ent))

skill_use(w, ent, skill_name, start_pos, dir) ==
    LET target_pos == <<start_pos[1] + dir[1], start_pos[2] + dir[2]>>
        use_tiles == get_use_tiles_and_directions(w, ent, start_pos, target_pos)
    IN  BasicAttack_use(Applied(w, "use", ent, NoEntity, "stamina",
                                Len(use_tiles)),
                        ent, use_tiles)

(***************************************************************************)
(* Event bus and handlers.  publish dispatches synchronously to every      *)
(* subscriber of the event's topic; handlers may publish in turn.          *)
(***************************************************************************)
RECURSIVE Publish(_, _)
RECURSIVE Dispatch(_, _, _)
RECURSIVE DispatchFirstOnly(_, _, _)
RECURSIVE DispatchAbortOnError(_, _, _)
RECURSIVE Handle(_, _, _)
RECURSIVE EntityHandler_process_event(_, _)
RECURSIVE process_move(_, _)
RECURSIVE process_move_step(_, _, _)
RECURSIVE process_skill(_, _)
RECURSIVE process_want_to_use_skill(_, _)
RECURSIVE process_skill_no_end_turn(_, _)
RECURSIVE process_skill_unaffordable_ends_turn(_, _)
RECURSIVE process_skill_god_ends_turn(_, _)

\* `entity` inside entity_handler.py names the imported module
\* scripts.engine.entity, not an entity id
EntityModule == "module scripts.engine.entity"

\* variant: the time is not added
spend_time_dropped(w, e, time_spent) == w

\* variant: the time is added to every entity that has Tracked
spend_time_of_all(w, e, time_spent) ==
    IF entity_has_component(w, e, "Tracked")
    THEN [w EXCEPT !.tracked = [x \in DOMAIN @ |-> @[x] + time_spent]]
    ELSE [w EXCEPT !.raised = "AttributeError"]

\* get_entitys_component gives None for an entity without Tracked, and the
\* attribute access on None raises AttributeError, which except KeyError lets
\* through
spend_time(w, e, time_spent) ==
    IF entity_has_component(w, e, "Tracked")
    THEN [w EXCEPT !.tracked[e] = @ + time_spent]
    ELSE [w EXCEPT !.raised = "AttributeError"]

\* the player's field of view is recomputed from the position
recompute_fov(w, pos) == [w EXCEPT !.recomputed = Append(@, pos)]

process_end_turn(w, ev) == spend_time(w, ev.entity, ev.time_spent)

\* the condition compares the module entity, not the dying entity, with the
\* turn holder
process_die(w, ev) ==
    LET ent == ev.dying_entity
        popped == IF ent \in Range(get_turn_queue(w))
                  THEN [w EXCEPT !.turn_queue = RemoveFromQueue(@, ent),
                                 !.insert_order = RemoveFromQueue(@, ent)]
                  ELSE w
        rebuilt == IF EntityModule = get_turn_holder(popped)
                      /\ EntityModule # get_player
                   THEN build_new_turn_queue(popped)
                   ELSE popped
    IN  delete(rebuilt, ent)

matter_kill_entity(w, e) == delete(w, e)

RECURSIVE reduce_lifespan_durations_from(_, _)
reduce_lifespan_durations_from(w, i) ==
    IF i > Len(CreationOrder) THEN w
    ELSE LET e == CreationOrder[i]
         IN  IF ~entity_has_component(w, e, "Lifespan")
             THEN reduce_lifespan_durations_from(w, i + 1)
             ELSE LET reduced == IF w.lifespan[e] # INFINITE
                                 THEN [w EXCEPT !.lifespan[e] = @ - 1]
                                 ELSE w
                      expired == IF reduced.lifespan[e] <= 0
                                 THEN Named(matter_kill_entity(reduced, e), e)
                                 ELSE reduced
                  IN  reduce_lifespan_durations_from(expired, i + 1)

reduce_lifespan_durations(w) == reduce_lifespan_durations_from(w, 1)

\* variant: the turn is not ended after the skill was used
process_skill_no_end_turn(w, ev) ==
    LET ent == ev.entity
        skill_data == get_skill_data(ev.skill_name)
    IN  IF skill_data.resource_type # ""
        THEN IF can_afford_cost(w, ent, skill_data.resource_type,
                                skill_data.resource_cost)
             THEN (LET paid == pay_resource_cost(w, ent, skill_data.resource_type,
                                                 skill_data.resource_cost)
                       used == skill_use(paid, ent, ev.skill_name, ev.start_pos,
                                         ev.direction)
                   IN  used)
             ELSE IF ent = get_player
                  THEN Publish(w, MessageEvent("You cannot afford to do that."))
                  ELSE w
        ELSE w

\* variant: an actor other than the player that cannot afford the skill ends
\* its turn
process_skill_unaffordable_ends_turn(w, ev) ==
    LET ent == ev.entity
        skill_data == get_skill_data(ev.skill_name)
    IN  IF skill_data.resource_type # ""
        THEN IF can_afford_cost(w, ent, skill_data.resource_type,
                                skill_data.resource_cost)
             THEN (LET paid == pay_resource_cost(w, ent, skill_data.resource_type,
                                                 skill_data.resource_cost)
                       used == skill_use(paid, ent, ev.skill_name, ev.start_pos,
                                         ev.direction)
                   IN  IF ~entity_has_component(used, ent, "IsGod")
                       THEN Publish(used, EndTurnEvent(ent, skill_data.time_cost))
                       ELSE used)
             ELSE IF ent = get_player
                  THEN Publish(w, MessageEvent("You cannot afford to do that."))
                  ELSE Publish(w, EndTurnEvent(ent, skill_data.time_cost))
        ELSE w

\* variant: a god ends its turn like any other entity
process_skill_god_ends_turn(w, ev) ==
    LET ent == ev.entity
        skill_data == get_skill_data(ev.skill_name)
    IN  IF skill_data.resource_type # ""
        THEN IF can_afford_cost(w, ent, skill_data.resource_type,
                                skill_data.resource_cost)
             THEN (LET paid == pay_resource_cost(w, ent, skill_data.resource_type,
                                                 skill_data.resource_cost)
                       used == skill_use(paid, ent, ev.skill_name, ev.start_pos,
                                         ev.direction)
                   IN  Publish(used, EndTurnEvent(ent, skill_data.time_cost)))
             ELSE IF ent = get_player
                  THEN Publish(w, MessageEvent("You cannot afford to do that."))
                  ELSE w
        ELSE w

process_skill(w, ev) ==
    LET ent == ev.entity
        skill_data == get_skill_data(ev.skill_name)
    IN  IF skill_data.resource_type # ""
        THEN IF can_afford_cost(w, ent, skill_data.resource_type,
                                skill_data.resource_cost)
             THEN (LET paid == pay_resource_cost(w, ent, skill_data.resource_type,
                                                 skill_data.resource_cost)
                       used == skill_use(paid, ent, ev.skill_name, ev.start_pos,
                                         ev.direction)
                   IN  IF ~entity_has_component(used, ent, "IsGod")
                       THEN Publish(used, EndTurnEvent(ent, skill_data.time_cost))
                       ELSE used)
             ELSE IF ent = get_player
                  THEN Publish(w, MessageEvent("You cannot afford to do that."))
                  ELSE w
        ELSE w

\* the skill that is being targeted: none outside the targeting mode
get_active_skill(w) ==
    IF w.game_state = "TARGETING_MODE" THEN KnownSkills(get_player)[1] ELSE ""

process_want_to_use_skill(w, ev) ==
    LET player == get_player
        active_skill == get_active_skill(w)
        knowledge_found == entity_has_component(w, player, "Knowledge")
        skill_pressed == IF knowledge_found
                         THEN KnownSkills(player)[ev.skill_number + 1] ELSE ""
        skill_data == get_skill_data(skill_pressed)
    IN  IF ~exists(w, player) THEN w
        ELSE IF skill_pressed # active_skill /\ knowledge_found
        THEN IF /\ skill_data.resource_type # ""
                /\ skill_data.resource_cost # 0
                /\ can_afford_cost(w, player, skill_data.resource_type,
                                   skill_data.resource_cost)
             THEN Publish(w, ChangeGameStateEvent("TARGETING_MODE"))
             ELSE w
        ELSE w

process_move_step(w, ev, step) ==
    IF step >= ev.distance THEN w
    ELSE
    LET ent == ev.entity
        dir == ev.direction
        target == <<ev.start_pos[1] + dir[1], ev.start_pos[2] + dir[2]>>
        target_tile == get_tile(target)
        is_tile_blocking_movement ==
            IF target_tile # NoEntity
            THEN tile_has_tag(w, target_tile, "BLOCKED_MOVEMENT", ent) ELSE TRUE
        is_entity_on_tile ==
            IF target_tile # NoEntity
            THEN tile_has_tag(w, target_tile, "OTHER_ENTITY", ent) ELSE FALSE
        after ==
            IF ~is_entity_on_tile /\ is_tile_blocking_movement
            THEN Publish(w, MessageEvent("There is something in the way"))
            ELSE IF is_entity_on_tile
            THEN IF entity_has_component(w, ent, "Knowledge")
                 THEN (LET skill_name == KnownSkills(ent)[1]
                       IN  IF dir \in get_skill_data(skill_name).target_directions
                           THEN Publish(w, UseSkillEvent(ent, skill_name,
                                                         ev.start_pos, dir))
                           ELSE Publish(w, MessageEvent("skill does not go that way")))
                 ELSE w
            ELSE (LET moved == IF entity_has_component(w, ent, "Position")
                               THEN [w EXCEPT !.position[ent] = target] ELSE w
                      seen == IF EntityModule = get_player
                                 /\ entity_has_component(w, ent, "Position")
                              THEN recompute_fov(moved, moved.position[ent])
                              ELSE moved
                  IN  IF EntityModule = get_turn_holder(seen)
                      THEN Publish(seen, EndTurnEvent(EntityModule, MoveTimeCost))
                      ELSE seen)
    IN  process_move_step(after, ev, step + 1)

process_move(w, ev) == process_move_step(w, ev, 0)

EntityHandler_process_event(w, ev) ==
    LET received == Logged(w, "received", "entity_handler", ev)
    IN  CASE ev.type = "MoveEvent" -> process_move(received, ev)
          [] ev.type = "UseSkillEvent" -> process_skill(received, ev)
          [] ev.type = "DieEvent" -> process_die(received, ev)
          [] ev.type = "WantToUseSkillEvent" ->
                 process_want_to_use_skill(received, ev)
          [] ev.type = "EndTurnEvent" -> process_end_turn(received, ev)
          [] OTHER -> received

GodHandler_process_event(w, ev) == Logged(w, "received", "god_handler", ev)

GameHandler_process_event(w, ev) ==
    LET received == Logged(w, "received", "game_handler", ev)
    IN  IF ev.type = "EndTurnEvent" THEN end_turn(received, ev.entity)
        ELSE IF ev.type = "ChangeGameStateEvent"
        THEN [received EXCEPT !.game_state =
                 IF ev.new_game_state = "PREVIOUS" THEN "PLAYER_TURN"
                 ELSE ev.new_game_state]
        ELSE received

Handle(name, w, ev) ==
    CASE name = "entity_handler" -> EntityHandler_process_event(w, ev)
      [] name = "god_handler" -> GodHandler_process_event(w, ev)
      [] name = "game_handler" -> GameHandler_process_event(w, ev)

\* variant: dispatch stops after the first subscriber that took the event
DispatchFirstOnly(w, ev, i) ==
    IF i > Len(Subscribers) THEN w
    ELSE LET sub == Subscribers[i]
         IN  IF ev.topic \in sub.topics
             THEN Logged(Handle(sub.name, w, ev), "returned", sub.name, ev)
             ELSE DispatchFirstOnly(w, ev, i + 1)

\* the dispatch boundary: an exception of a subscriber is caught and logged
Caught(w, who, ev) ==
    IF w.raised = NoError THEN w
    ELSE [w EXCEPT !.caught = Append(@, <<who, ev.type, w.raised>>),
                   !.raised = NoError]

\* variant: an exception of a subscriber ends the dispatch of the event
DispatchAbortOnError(w, ev, i) ==
    IF i > Len(Subscribers) THEN w
    ELSE LET sub == Subscribers[i]
         IN  IF ev.topic \in sub.topics
             THEN (LET handled == Handle(sub.name, w, ev)
                   IN  IF handled.raised # NoError
                       THEN Caught(handled, sub.name, ev)
                       ELSE DispatchAbortOnError(
                                Logged(handled, "returned", sub.name, ev),
                                ev, i + 1))
             ELSE DispatchAbortOnError(w, ev, i + 1)

Dispatch(w, ev, i) ==
    IF i > Len(Subscribers) THEN w
    ELSE LET sub == Subscribers[i]
         IN  IF ev.topic \in sub.topics
             THEN Dispatch(Logged(Caught(Handle(sub.name, w, ev), sub.name, ev),
                                  "returned", sub.name, ev),
                           ev, i + 1)
             ELSE Dispatch(w, ev, i + 1)

\* type, entity and time cost of an event
EventSummary(ev) ==
    <<ev.type,
      IF "entity" \in DOMAIN ev THEN ev.entity
      ELSE IF "dying_entity" \in DOMAIN ev THEN ev.dying_entity
      ELSE NoEntity,
      IF "time_spent" \in DOMAIN ev THEN ev.time_spent ELSE 0>>

Publish(w, ev) ==
    LET start == [Logged(w, "publish", "publisher", ev) EXCEPT
                     !.events = Append(@, EventSummary(ev))]
    IN  Logged(Dispatch(start, ev, 1), "published", "publisher", ev)

(***************************************************************************)
(* Input: intents are processed in the context of the game state           *)
(***************************************************************************)
InputIntents == {"UP", "LEFT", "RIGHT", "SKILL0", "CANCEL"}

_get_pressed_direction(intent) ==
    CASE intent = "UP" -> <<0, -1>>
      [] intent = "DOWN" -> <<0, 1>>
      [] intent = "LEFT" -> <<-1, 0>>
      [] intent = "RIGHT" -> <<1, 0>>
      [] OTHER -> <<0, 0>>

_get_pressed_skills_number(intent) == IF intent = "SKILL0" THEN 0 ELSE -1

_process_player_turn_intents(w, intent) ==
    LET player == get_player
        dir == _get_pressed_direction(intent)
        skill_number == _get_pressed_skills_number(intent)
        moved == IF dir # <<0, 0>>
                 THEN Publish(w, MoveEvent(w, player, dir, 1)) ELSE w
    IN  IF ~exists(w, player) THEN w
        ELSE IF skill_number # -1
        THEN Publish(moved, WantToUseSkillEvent(skill_number))
        ELSE moved

_process_targeting_mode_intents(w, intent) ==
    LET skill_number == _get_pressed_skills_number(intent)
        cancelled == IF intent = "CANCEL"
                     THEN Publish(w, ChangeGameStateEvent("PREVIOUS")) ELSE w
    IN  IF skill_number # -1
        THEN Publish(cancelled, WantToUseSkillEvent(skill_number))
        ELSE cancelled

\* variant: the intents of the player turn are processed in every game state
process_intent_in_any_state(w, intent, state) ==
    _process_player_turn_intents(w, intent)

process_intent(w, intent, state) ==
    IF state = "PLAYER_TURN" THEN _process_player_turn_intents(w, intent)
    ELSE IF state = "TARGETING_MODE"
    THEN _process_targeting_mode_intents(w, intent)
    ELSE w

(***************************************************************************)
(* Behaviour                                                               *)
(***************************************************************************)
\* variant: the monster passes its turn at no cost
BasicMonster_take_turn_free(w, e) == Publish(w, EndTurnEvent(e, 0))

BasicMonster_take_turn(w, e) == Publish(w, EndTurnEvent(e, MonsterPassCost))

\* get_entitys_component gives None for an entity without Behaviour, and
\* the read of behaviour.behaviour raises
take_turn(w, e) ==
    IF entity_has_component(w, e, "Behaviour")
    THEN BasicMonster_take_turn(w, e)
    ELSE [w EXCEPT !.raised = "AttributeError"]

(***************************************************************************)
(* Vision: light map, fields of view and tile visibility.  A mask is the   *)
(* set of the tiles at which it is true; block_sight_map holds the tiles   *)
(* that let sight through.                                                 *)
(***************************************************************************)
Min(a, b) == IF a <= b THEN a ELSE b

\* the tiles on the straight line from one tile to another, ends excluded
Between(from, to) ==
    {b \in Tiles \ {from, to} :
        /\ (b[1] - from[1]) * (to[2] - from[2])
              = (b[2] - from[2]) * (to[1] - from[1])
        /\ Min(from[1], to[1]) <= b[1] /\ b[1] <= Max(from[1], to[1])
        /\ Min(from[2], to[2]) <= b[2] /\ b[2] <= Max(from[2], to[2])}

\* the tiles within the radius to which the line of sight is not broken; the
\* tile that breaks it is lit itself
compute_fov(transparency, origin, radius) ==
    {t \in Tiles :
        /\ ChebyshevDistance(origin, t) <= radius
        /\ Between(origin, t) \subseteq transparency}

\* variant: a viewer also sees over an entity of its own height
SeesOverEqual(height, other_height) == height >= other_height

\* variant: a viewer sees over the entities taller than itself
SeesOverTaller(height, other_height) == height < other_height

\* is viewing_entity taller and therefore their sight isnt blocked?
SeesOver(height, other_height) == height > other_height

active_and_light_source_and_position ==
    {e \in is_active : e \in DOMAIN light_source /\ e \in DOMAIN position}

active_and_position_and_physicality ==
    {e \in is_active : e \in DOMAIN position /\ e \in DOMAIN physicality}

active_actors ==
    {e \in active_and_position_and_physicality :
        e \in DOMAIN fov /\ e \in DOMAIN tracked}

\* variant: the light map is not reset before the sources are added
process_light_map_keeps ==
    [game_map EXCEPT !.light_map =
        @ \cup UNION {compute_fov(game_map.block_sight_map, position[e],
                                  light_source[e].radius) :
                      e \in active_and_light_source_and_position}]

process_light_map ==
    [game_map EXCEPT !.light_map =
        UNION {compute_fov(game_map.block_sight_map, position[e],
                           light_source[e].radius) :
               e \in active_and_light_source_and_position}]

\* the transparency an entity looks through: the tiles of the other entities
\* it does not see over are set to blocking
updated_block_sight_map(entity) ==
    game_map.block_sight_map \
        {position[other_entity] :
            other_entity \in
                {o \in active_and_position_and_physicality :
                    /\ o # entity
                    /\ ~SeesOver(physicality[entity].height,
                                 physicality[o].height)}}

process_fov ==
    [e \in DOMAIN fov |->
        IF e \in active_actors
        THEN [block_sight_map |-> updated_block_sight_map(e),
              map |-> compute_fov(updated_block_sight_map(e), position[e],
                                  MaxSight)]
        ELSE fov[e]]

\* variant: the tiles are not reset first and only visible tiles are written
process_tile_visibility_keeps ==
    LET visible_map == fov[get_player].map \cap game_map.light_map
    IN  [game_map EXCEPT !.tile_map =
            [t \in Tiles |-> IF t \in visible_map THEN [is_visible |-> TRUE]
                             ELSE game_map.tile_map[t]]]

process_tile_visibility ==
    LET reset == [t \in Tiles |-> [is_visible |-> FALSE]]
        visible_map == fov[get_player].map \cap game_map.light_map
    IN  [game_map EXCEPT !.tile_map =
            [t \in Tiles |-> [reset[t] EXCEPT !.is_visible = t \in visible_map]]]

\* the map before any pass: nothing lit, nothing seen
NewGameMap(visible) ==
    [block_sight_map |-> Tiles \ Walls, light_map |-> {},
     tile_map |-> [t \in Tiles |-> [is_visible |-> visible]]]

NewFov == [block_sight_map |-> Tiles \ Walls, map |-> {}]

\* the state of vision in the steps that do not look at it
NoVision ==
    /\ physicality = [e \in ActorEntities |-> [height |-> 1]]
    /\ light_source = [e \in {} |-> 0]
    /\ fov = [e \in ActorEntities |-> NewFov]
    /\ game_map = NewGameMap(FALSE)

(***************************************************************************)
(* Lunge.activate, step by step.  The effects are named; which effects     *)
(* follow an effect on success and on failure is data of the activation.   *)
(***************************************************************************)
EffectNames == {"move", "damage", "burn"}

NoFollowUp == [e \in EffectNames |-> <<>>]

\* follow-up lists of at most one effect in which no effect lists itself
FollowUpLists ==
    {f \in [EffectNames -> {<<>>} \cup {<<x>> : x \in EffectNames}] :
        \A e \in EffectNames : f[e] # <<e>>}

\* follow-ups on failure: only of the effect that is itself a follow-up
FailLists ==
    {f \in FollowUpLists : f["move"] = <<>> /\ f["damage"] = <<>>}

Lunge_create_effects == <<"move", "damage">>

\* the longest list of effects an activation without a cycle of follow-ups
\* builds: a follow-up of a follow-up for every tile
MaxEffects == 2 * MaxTiles

Idle ==
    [pc |-> "idle", effects |-> <<>>, effect |-> "none", tile |-> 0,
     tiles |-> 0, success |-> NoFollowUp, fail |-> NoFollowUp,
     queued |-> <<>>, popped |-> <<>>, applied |-> <<>>]

EffectData(a, name) ==
    [name |-> name, success_effects |-> a.success[name],
     fail_effects |-> a.fail[name]]

\* the first MaxTrace entries of a trace
Traced(trace, more) == SubSeq(trace \o more, 1, Max(0, IF Len(trace \o more) < MaxTrace THEN Len(trace \o more) ELSE MaxTrace))

\* variant: the effect is read from the list and stays in it
PopKeeps(effects) == effects

\* effects.pop(): the last element leaves the list
PopRest(effects) == SubSeq(effects, 1, Len(effects) - 1)

PopLast(effects) == effects[Len(effects)]

\* a call of activate: effects = self.create_effects()
ActivationStarts ==
    {[Idle EXCEPT !.pc = "while", !.effects = Lunge_create_effects,
                  !.queued = Traced(<<>>, Lunge_create_effects),
                  !.tiles = n, !.success = s, !.fail = f] :
        n \in 0..MaxTiles, s \in FollowUpLists, f \in FailLists}

\* while effects: effect = effects.pop()
Lunge_activate_pop ==
    /\ activation.pc = "while"
    /\ activation.effects # <<>>
    /\ activation' = [activation EXCEPT
            !.pc = "for",
            !.effect = PopLast(activation.effects),
            !.effects = PopRest(activation.effects),
            !.popped = Traced(@, <<PopLast(activation.effects)>>),
            !.tile = 1]
    /\ UNCHANGED world_vars

\* the effects after one pass of the loop body for a tile
AfterTile(a, result) ==
    a.effects \o _process_result(result, EffectData(a, a.effect))

\* for tile in target_tiles: process the effect, append its follow-ups
Lunge_activate_tile ==
    /\ activation.pc = "for"
    /\ activation.tile <= activation.tiles
    /\ \E result \in BOOLEAN :
          /\ Len(AfterTile(activation, result)) <= MaxEffects
          /\ activation' = [activation EXCEPT
                !.effects = AfterTile(activation, result),
                !.queued = Traced(@, _process_result(result,
                                        EffectData(activation, activation.effect))),
                !.applied = Traced(@, <<activation.effect>>),
                !.tile = @ + 1]
    /\ UNCHANGED world_vars

\* the list of effects grows beyond the bound of the model
Lunge_activate_overflow ==
    /\ activation.pc = "for"
    /\ activation.tile <= activation.tiles
    /\ \E result \in BOOLEAN :
          Len(AfterTile(activation, result)) > MaxEffects
    /\ activation' = [activation EXCEPT !.pc = "overflow"]
    /\ UNCHANGED world_vars

\* the loop over the tiles is over
Lunge_activate_next ==
    /\ activation.pc = "for"
    /\ activation.tile > activation.tiles
    /\ activation' = [activation EXCEPT !.pc = "while"]
    /\ UNCHANGED world_vars

\* the list of effects is empty: activate returns
Lunge_activate_return ==
    /\ activation.pc = "while"
    /\ activation.effects = <<>>
    /\ activation' = [activation EXCEPT !.pc = "done"]
    /\ UNCHANGED world_vars

(***************************************************************************)
(* Initial state and steps of the game loop                                *)
(***************************************************************************)
NoOp(op) ==
    [op |-> op, entity |-> NoEntity, cost |-> 0, activated |-> {},
     caught |-> <<>>, events |-> <<>>, applied |-> <<>>, afforded |-> FALSE,
     target |-> <<>>, names |-> <<>>, raised |-> NoError,
     attached |-> <<>>, recomputed |-> <<>>]

\* what the last operation was and what was observed while it ran
Ran(op, e, c, w) ==
    [NoOp(op) EXCEPT !.entity = e, !.cost = c, !.caught = w.caught,
                     !.events = w.events, !.applied = w.applied,
                     !.names = w.names, !.raised = w.raised,
                     !.attached = w.attached,
                     !.recomputed = w.recomputed]

Fresh == [World EXCEPT !.log = <<>>]

QueueInSync == Range(turn_queue) = ActiveTracked(World)

\* actor_a sits in one corner of the map and actor_b in the opposite one; the
\* player starts next to either of them.  Entities are created without
\* IsActive; a world in which every entity was given IsActive by add_component
\* before the first activation pass is the other start.
PlayerStarts == {<<1, 0>>, <<MapWidth - 2, MapHeight - 1>>}

CreatedWorld(start, active) ==
    /\ position = [e \in PositionEntities |->
                      CASE e = "actor_a" -> <<0, 0>>
                        [] e = "player" -> start
                        [] OTHER -> <<MapWidth - 1, MapHeight - 1>>]
    /\ is_active = active
    /\ tracked = [e \in TrackedEntities |-> 0]
    /\ resources = [e \in ResourceEntities |->
                      IF e \in GodEntities
                      THEN [health |-> INFINITE, stamina |-> INFINITE]
                      ELSE [health |-> InitHealth, stamina |-> InitStamina]]
    /\ time = 0
    /\ turn_queue = <<>>
    /\ insert_order = <<>>
    /\ turn_holder = NoEntity
    /\ game_state = "GAME_INITIALISING"
    /\ log = <<>>
    /\ last = NoOp("init")
    /\ scheduled = {}
    /\ deleted = {}
    /\ knowledge = [e \in KnowledgeEntities |-> [skill_order |-> KnownSkills(e)]]
    /\ opinion = [e \in GodEntities |-> NoOpinions]

Init ==
    /\ \E start \in PlayerStarts, active \in {{}, Entities} :
          CreatedWorld(start, active)
    /\ activation = Idle
    /\ lifespan = NoLifespans
    /\ NoVision

ProcessActivations ==
    /\ Commit(process_activations(Fresh))
    /\ last' = [NoOp("process_activations") EXCEPT
                    !.activated = NewlyActivated(World)]

RebuildTurnQueue ==
    /\ ~QueueInSync
    /\ Commit(build_new_turn_queue(Fresh))
    /\ last' = NoOp("build_new_turn_queue")

PlayerMove ==
    /\ game_state = "PLAYER_TURN"
    /\ QueueInSync
    /\ \E dir \in Directions :
          LET w == Publish(Fresh, MoveEvent(World, get_player, dir, 1))
          IN  /\ Commit(w)
              /\ last' = Ran("MoveEvent", get_player, 0, w)

EndTurn ==
    /\ turn_holder # NoEntity
    /\ QueueInSync
    /\ \E c \in TimeCosts :
          /\ tracked[turn_holder] + c <= MaxTime
          /\ LET w == Publish(Fresh, EndTurnEvent(turn_holder, c))
             IN  /\ Commit(w)
                 /\ last' = Ran("EndTurnEvent", turn_holder, c, w)

\* a use-skill event of the turn holder or of a god; the skill of a god
\* starts from the tile of the player
UseSkill ==
    /\ QueueInSync
    /\ \E e \in (ActorEntities \cap {turn_holder}) \cup GodEntities,
          dir \in Directions :
          LET data == get_skill_data("basic_attack")
              start == IF e \in DOMAIN position THEN position[e]
                       ELSE position[get_player]
              affordable == can_afford_cost(World, e, data.resource_type,
                                            data.resource_cost)
              w == Publish(Fresh, UseSkillEvent(e, "basic_attack", start, dir))
          IN  /\ e \in GodEntities =>
                    resources[e].stamina >
                        INFINITE - MaxGodSkills * data.resource_cost
              /\ (e \in DOMAIN tracked /\ affordable) =>
                    tracked[e] + data.time_cost <= MaxTime
              /\ Commit(w)
              /\ last' = [Ran("UseSkillEvent", e, data.time_cost, w) EXCEPT
                             !.afforded = affordable,
                             !.target = <<start[1] + dir[1], start[2] + dir[2]>>]

\* a use-skill event of the turn holder for any skill of the library
UseSkillOfLibrary ==
    /\ QueueInSync
    /\ \E e \in ActorEntities \cap {turn_holder}, dir \in Directions,
          skill_name \in SkillNames :
          LET data == get_skill_data(skill_name)
              affordable == \/ data.resource_type = ""
                            \/ can_afford_cost(World, e, data.resource_type,
                                               data.resource_cost)
              w == Publish(Fresh, UseSkillEvent(e, skill_name, position[e], dir))
          IN  /\ tracked[e] + data.time_cost <= MaxTime
              /\ Commit(w)
              /\ last' = [Ran("UseSkillEvent", e, data.time_cost, w) EXCEPT
                             !.afforded = affordable,
                             !.target = <<skill_name>>]

\* an end-turn event for an entity that has no Tracked component
EndTurnUntracked ==
    /\ QueueInSync
    /\ \E e \in Entities \ TrackedEntities, c \in TimeCosts :
          LET w == Publish(Fresh, EndTurnEvent(e, c))
          IN  /\ Commit(w)
              /\ last' = Ran("EndTurnEvent", e, c, w)

TakeTurn ==
    /\ game_state = "ENEMY_TURN"
    /\ turn_holder # NoEntity
    /\ QueueInSync
    /\ tracked[turn_holder] + MonsterPassCost <= MaxTime
    /\ \E w \in {take_turn(Fresh, turn_holder)} :
          /\ Commit(w)
          /\ last' = Ran("take_turn", turn_holder, MonsterPassCost, w)

Next ==
    \/ ProcessActivations
    \/ RebuildTurnQueue
    \/ PlayerMove
    \/ EndTurn
    \/ EndTurnUntracked
    \/ TakeTurn

Spec == Init /\ [][Next]_vars

\* the steps in which skills are used
SkillNext ==
    \/ RebuildTurnQueue
    \/ PlayerMove
    \/ UseSkill
    \/ TakeTurn

SkillSpec == Init /\ [][SkillNext]_vars

\* the player ends its turn
PlayerEndTurn ==
    /\ game_state = "PLAYER_TURN"
    /\ turn_holder = get_player
    /\ EndTurn

\* the player presses left or right in its turn
PlayerWalk ==
    /\ game_state = "PLAYER_TURN"
    /\ QueueInSync
    /\ \E dir \in {<<-1, 0>>, <<1, 0>>} :
          \E w \in {Publish(Fresh, MoveEvent(World, get_player, dir, 1))} :
              /\ Commit(w)
              /\ last' = Ran("MoveEvent", get_player, 0, w)

\* the rounds of the game: the player moves and ends its turns when it likes,
\* the main loop rebuilds a queue that is out of date and lets the turn
\* holder of an enemy turn act
TurnsNext ==
    \/ ProcessActivations
    \/ RebuildTurnQueue
    \/ PlayerWalk
    \/ PlayerEndTurn
    \/ TakeTurn

\* the game starts with the player next to the far wall, every entity active
TurnsInit ==
    /\ CreatedWorld(<<MapWidth - 2, MapHeight - 1>>, Entities)
    /\ activation = Idle
    /\ lifespan = NoLifespans
    /\ NoVision

TurnsSpec ==
    /\ TurnsInit
    /\ [][TurnsNext]_vars
    /\ WF_vars(RebuildTurnQueue)
    /\ WF_vars(TakeTurn)

\* the actors use the skills of the library in their turns
LibraryNext ==
    \/ RebuildTurnQueue
    \/ PlayerMove
    \/ UseSkillOfLibrary
    \/ TakeTurn

LibrarySpec == Init /\ [][LibraryNext]_vars

\* the turn of the turn holder ends; the turn holder is in the store
EndTurnOfPresent ==
    /\ turn_holder \in DOMAIN tracked
    /\ tracked[turn_holder] < MaxTurnsTime
    /\ EndTurn

Die ==
    \E e \in ActorEntities \ deleted :
        LET w == Publish(Fresh, DieEvent(e))
        IN  /\ Commit(w)
            /\ last' = Ran("DieEvent", e, 0, w)

\* the durations are reduced until they are below zero by MaxLifespan
ReduceLifespans ==
    /\ DOMAIN lifespan # {}
    /\ \A e \in DOMAIN lifespan : lifespan[e] > 0 - MaxLifespan
    /\ LET w == reduce_lifespan_durations(Fresh)
       IN  /\ Commit(w)
           /\ last' = Ran("reduce_lifespan_durations", NoEntity, 0, w)

Flush ==
    /\ scheduled # {}
    /\ Commit(process_pending_deletions(Fresh))
    /\ last' = NoOp("process_pending_deletions")

\* the actors are active; some of them have a Lifespan
LifeInit ==
    /\ \E start \in PlayerStarts : CreatedWorld(start, Entities)
    /\ activation = Idle
    /\ \E with \in SUBSET (ActorEntities \ {get_player}) :
          lifespan \in [with -> {1, MaxLifespan, INFINITE}]
    /\ NoVision

\* the steps in which entities die
LifeNext ==
    \/ RebuildTurnQueue
    \/ EndTurnOfPresent
    \/ Die
    \/ ReduceLifespans
    \/ Flush

LifeSpec == LifeInit /\ [][LifeNext]_vars

\* a move event for the turn holder
Move ==
    \E e \in {turn_holder} \cap DOMAIN position,
      dir \in Directions :
        LET w == Publish(Fresh, MoveEvent(World, e, dir, 1))
        IN  /\ Commit(w)
            /\ last' = [Ran("MoveEvent", e, 0, w) EXCEPT
                           !.target = <<position[e][1] + dir[1],
                                        position[e][2] + dir[2]>>]

\* a move event of MaxDistance steps for the turn holder
MoveFar ==
    \E e \in {turn_holder} \cap DOMAIN position,
      dir \in Directions, distance \in {MaxDistance} :
        LET w == Publish(Fresh, MoveEvent(World, e, dir, distance))
        IN  /\ Commit(w)
            /\ last' = [Ran("MoveEvent of distance", e, distance, w) EXCEPT
                           !.target = <<position[e][1] + dir[1],
                                        position[e][2] + dir[2]>>]

\* the steps in which entities are moved
MoveInit ==
    /\ \E start \in PlayerStarts : CreatedWorld(start, Entities)
    /\ activation = Idle
    /\ lifespan = NoLifespans
    /\ NoVision

MoveNext ==
    \/ RebuildTurnQueue
    \/ Move

MoveSpec == MoveInit /\ [][MoveNext]_vars

\* the steps in which entities are moved by more than one tile
FarNext ==
    \/ RebuildTurnQueue
    \/ MoveFar

FarSpec == MoveInit /\ [][FarNext]_vars

ProcessLightMap ==
    /\ game_map' = process_light_map
    /\ last' = NoOp("process_light_map")
    /\ UNCHANGED <<position, is_active, tracked, resources, time, turn_queue,
                   insert_order, turn_holder, game_state, log, activation,
                   lifespan, scheduled, deleted, physicality, light_source,
                   fov, knowledge, opinion>>

ProcessFov ==
    /\ fov' = process_fov
    /\ last' = NoOp("process_fov")
    /\ UNCHANGED <<position, is_active, tracked, resources, time, turn_queue,
                   insert_order, turn_holder, game_state, log, activation,
                   lifespan, scheduled, deleted, physicality, light_source,
                   game_map, knowledge, opinion>>

ProcessTileVisibility ==
    /\ game_map' = process_tile_visibility
    /\ last' = NoOp("process_tile_visibility")
    /\ UNCHANGED <<position, is_active, tracked, resources, time, turn_queue,
                   insert_order, turn_holder, game_state, log, activation,
                   lifespan, scheduled, deleted, physicality, light_source,
                   fov, knowledge, opinion>>

\* where the actors are created
Layouts ==
    {[e \in PositionEntities |->
        CASE e = "actor_a" -> a [] e = "player" -> p [] OTHER -> b] :
        p \in {<<1, 0>>, <<2, 0>>},
        a \in {<<0, 0>>, <<1, 1>>},
        b \in {<<3, 0>>, <<MapWidth - 1, MapHeight - 1>>}}

\* actors of any height, some of them carrying a light
VisionInit ==
    /\ position \in {l \in Layouts : l["player"] # l["actor_a"]}
    /\ is_active \in {{}, Entities}
    /\ tracked = [e \in TrackedEntities |-> 0]
    /\ resources = [e \in ResourceEntities |->
                      IF e \in GodEntities
                      THEN [health |-> INFINITE, stamina |-> INFINITE]
                      ELSE [health |-> InitHealth, stamina |-> InitStamina]]
    /\ time = 0
    /\ turn_queue = <<>>
    /\ insert_order = <<>>
    /\ turn_holder = NoEntity
    /\ game_state = "GAME_INITIALISING"
    /\ log = <<>>
    /\ last = NoOp("init")
    /\ scheduled = {}
    /\ deleted = {}
    /\ knowledge = [e \in KnowledgeEntities |-> [skill_order |-> KnownSkills(e)]]
    /\ opinion = [e \in GodEntities |-> NoOpinions]
    /\ activation = Idle
    /\ lifespan = NoLifespans
    /\ physicality \in [ActorEntities -> {[height |-> h] : h \in 1..MaxHeight}]
    /\ \E lit \in {{get_player}, {"actor_b"}} :
          light_source = [e \in lit |-> [radius |-> MaxSight]]
    /\ fov = [e \in ActorEntities |-> NewFov]
    /\ \E visible \in BOOLEAN : game_map = NewGameMap(visible)

\* the passes that recompute what is seen
VisionNext ==
    \/ ProcessActivations
    \/ ProcessLightMap
    \/ ProcessFov
    \/ ProcessTileVisibility

VisionSpec == VisionInit /\ [][VisionNext]_vars

\* a call of process_activations; the add_component calls it makes are noted
ActivationPass ==
    LET w == process_activations(Fresh)
    IN  /\ Commit(w)
        /\ last' = Ran("process_activations", NoEntity, 0, w)

\* the player is moved along its row, towards the other actors or away
PlayerStep ==
    \E dir \in {<<-1, 0>>, <<1, 0>>} :
        LET w == Publish(Fresh, MoveEvent(World, get_player, dir, 1))
        IN  /\ Commit(w)
            /\ last' = Ran("MoveEvent", get_player, 0, w)

\* a call of learn_skill for an entity with or without Knowledge
LearnSkill ==
    \E e \in {"god", "actor_a"} :
        LET w == learn_skill(Fresh, e, "lunge")
        IN  /\ e \in DOMAIN knowledge =>
                  Len(knowledge[e].skill_order) < MaxSkills
            /\ Commit(w)
            /\ last' = Ran("learn_skill", e, 0, w)

\* a call of create_actor: the kinds it attaches to the new entity
CreateActor ==
    \E is_player \in BOOLEAN :
        /\ Commit(Fresh)
        /\ last' = [NoOp("create_actor") EXCEPT
                       !.afforded = is_player,
                       !.attached = create_actor_attached(
                                        "new actor", Range(create_actor_created),
                                        create_actor_added(is_player), 1)]

\* the Lifespan component is detached from an entity
RemoveComponent ==
    \E e \in DOMAIN lifespan :
        LET w == remove_component(Fresh, e, "Lifespan")
        IN  /\ Commit(w)
            /\ last' = Ran("remove_component", e, 0, w)

\* a new Lifespan component is attached to an entity that has none
AddComponent ==
    \E e \in {"actor_a"} \ DOMAIN lifespan, duration \in 1..MaxLifespan :
        LET w == add_component(Fresh, e, "Lifespan", duration)
        IN  /\ Commit(w)
            /\ last' = Ran("add_component", e, duration, w)

\* actor_a is created with a Lifespan component
ComponentInit ==
    /\ \E start \in PlayerStarts, active \in {{}, Entities} :
          CreatedWorld(start, active)
    /\ activation = Idle
    /\ lifespan = [e \in {"actor_a"} |-> MaxLifespan]
    /\ NoVision

\* the operations that attach and detach components
ComponentNext ==
    \/ ActivationPass
    \/ PlayerStep
    \/ LearnSkill
    \/ CreateActor
    \/ RemoveComponent
    \/ AddComponent

ComponentSpec == ComponentInit /\ [][ComponentNext]_vars

\* a call of delete, for an entity, for a removed entity or for no entity
Delete ==
    \E e \in (Entities \ {get_player}) \cup {NoEntity} :
        LET w == delete(Fresh, e)
        IN  /\ Commit(w)
            /\ last' = Ran("delete", e, 0, w)

\* the entities spend_time and apply_damage are called for
StoreProbes == {"actor_b", "god"}

\* a call of spend_time
SpendTime ==
    \E e \in StoreProbes, c \in TimeCosts :
        LET w == spend_time(Fresh, e, c)
        IN  /\ e \in DOMAIN tracked => tracked[e] + c <= MaxStoreTime
            /\ Commit(w)
            /\ last' = Ran("spend_time", e, c, w)

\* a call of apply_damage; an entity is damaged once
ApplyDamage ==
    \E e \in StoreProbes :
        LET w == apply_damage(Fresh, e, BasicAttackDamage)
        IN  /\ e \in DOMAIN resources =>
                  resources[e].health \in {InitHealth, INFINITE}
            /\ Commit(w)
            /\ last' = Ran("apply_damage", e, 0, w)

\* entities made by create with some of the components: actor_b may be
\* without Tracked, without Resources or without both
StoreInit ==
    /\ \E start \in PlayerStarts, untracked \in SUBSET {"actor_b"},
          poor \in SUBSET {"actor_b"} :
          /\ position = [e \in PositionEntities |->
                            CASE e = "actor_a" -> <<0, 0>>
                              [] e = "player" -> start
                              [] OTHER -> <<MapWidth - 1, MapHeight - 1>>]
          /\ tracked = [e \in TrackedEntities \ untracked |-> 0]
          /\ resources = [e \in ResourceEntities \ poor |->
                            IF e \in GodEntities
                            THEN [health |-> INFINITE, stamina |-> INFINITE]
                            ELSE [health |-> InitHealth, stamina |-> InitStamina]]
    /\ is_active = {}
    /\ time = 0
    /\ turn_queue = <<>>
    /\ insert_order = <<>>
    /\ turn_holder = NoEntity
    /\ game_state = "GAME_INITIALISING"
    /\ log = <<>>
    /\ last = NoOp("init")
    /\ scheduled = {}
    /\ deleted = {}
    /\ knowledge = [e \in KnowledgeEntities |-> [skill_order |-> KnownSkills(e)]]
    /\ opinion = [e \in GodEntities |-> NoOpinions]
    /\ activation = Idle
    /\ lifespan = NoLifespans
    /\ NoVision

\* calls of the operations of the entity store
\* a call of take_turn for an entity created without Behaviour
TakeTurnOf ==
    \E e \in Entities \ BehaviourEntities :
        LET w == take_turn(Fresh, e)
        IN  /\ Commit(w)
            /\ last' = Ran("take_turn", e, 0, w)

\* an intent arrives from the input, in whatever state the game is
ProcessIntent ==
    \E intent \in InputIntents :
        LET w == process_intent(Fresh, intent, game_state)
        IN  /\ Commit(w)
            /\ last' = [Ran("process_intent", get_player, 0, w) EXCEPT
                            !.target = <<intent>>]

\* the game from its start, with the input of the player and the turns of
\* the other actors
IntentNext ==
    \/ ProcessActivations
    \/ RebuildTurnQueue
    \/ ProcessIntent
    \/ TakeTurn

IntentSpec == Init /\ [][IntentNext]_vars

\* a call of judge_action for an actor and an action
JudgeAction ==
    \E e \in ActorEntities, action \in JudgedActions :
        LET w == judge_action(Fresh, e, action)
        IN  /\ \A g \in DOMAIN opinion :
                  \A o \in DOMAIN opinion[g] : opinion[g][o] + 2 <= MaxOpinion
            /\ Commit(w)
            /\ last' = [Ran("judge_action", e, 0, w) EXCEPT
                            !.target = <<action>>]

StoreNext ==
    \/ JudgeAction
    \/ SpendTime
    \/ ApplyDamage
    \/ TakeTurnOf
    \/ Delete
    \/ Flush

StoreSpec == StoreInit /\ [][StoreNext]_vars

\* one call of Lunge.activate
ActivateInit ==
    /\ CreatedWorld(<<1, 0>>, {})
    /\ activation \in ActivationStarts
    /\ lifespan = NoLifespans
    /\ NoVision

ActivateNext ==
    \/ Lunge_activate_pop
    \/ Lunge_activate_tile
    \/ Lunge_activate_overflow
    \/ Lunge_activate_next
    \/ Lunge_activate_return

\* the loop is sequential code: it takes its next step whenever it has one
ActivateSpec == ActivateInit /\ [][ActivateNext]_vars /\ WF_vars(ActivateNext)

(***************************************************************************)
(* Properties                                                              *)
(***************************************************************************)
LogHas(kind, who, type) == <<kind, who, type>> \in Range(log)

\* the last step made the scheduler pick a turn holder
SchedulerPicked ==
    \/ last.op = "build_new_turn_queue"
    \/ LogHas("returned", "game_handler", "EndTurnEvent")

\* C1: whenever the scheduler has picked the next turn holder, the holder is
\* in the turn queue and no entity in the queue has a smaller time_spent
C1_HolderHasMinimalTime ==
    (SchedulerPicked /\ turn_queue # <<>>) =>
        /\ turn_holder \in Range(turn_queue)
        /\ \A e \in Range(turn_queue) : tracked[turn_holder] <= tracked[e]

C1_Witness ==
    /\ last.op \in {"EndTurnEvent", "take_turn"}
    /\ LogHas("returned", "game_handler", "EndTurnEvent")
    /\ Len(turn_queue) >= 2
    /\ turn_holder # last.entity
    /\ tracked[turn_holder] < tracked[last.entity]

IndexIn(seq, e) == CHOOSE i \in 1..Len(seq) : seq[i] = e

\* C2: after every pick the queue is ordered by time_spent and entries with
\* equal time_spent are in the order in which they were put in the queue, and
\* the holder is the head: the pick is a function of the queue alone
C2_TiesByInsertionOrder ==
    (SchedulerPicked /\ turn_queue # <<>>) =>
        /\ turn_holder = Head(turn_queue)
        /\ Range(insert_order) = Range(turn_queue)
        /\ \A i, j \in 1..Len(turn_queue) :
              i < j =>
                \/ tracked[turn_queue[i]] < tracked[turn_queue[j]]
                \/ /\ tracked[turn_queue[i]] = tracked[turn_queue[j]]
                   /\ IndexIn(insert_order, turn_queue[i])
                        < IndexIn(insert_order, turn_queue[j])

C2_Witness ==
    /\ last.op \in {"EndTurnEvent", "take_turn"}
    /\ LogHas("returned", "game_handler", "EndTurnEvent")
    /\ Len(turn_queue) >= 2
    /\ tracked[turn_queue[1]] = tracked[turn_queue[2]]
    /\ CreatedAt(turn_queue[1]) > CreatedAt(turn_queue[2])

\* C3: from one state to the next no entity's time_spent decreases, unless
\* the step is a full rebuild of the turn queue
C3_TimeSpentNeverDecreases ==
    [][last'.op # "build_new_turn_queue" =>
          \A e \in DOMAIN tracked : tracked'[e] >= tracked[e]]_vars

\* C4: with the player P and one other entity A in the queue, both at
\* time_spent 0 and P the turn holder, handling P's end-turn event with cost
\* 10 leaves P at 10, A at 0 and A at the head of the queue as turn holder
C4_EndTurnScenario ==
    [][\A a \in ActorEntities \ {get_player} :
          ( /\ turn_holder = get_player
            /\ Range(turn_queue) = {get_player, a}
            /\ tracked[get_player] = 0
            /\ tracked[a] = 0
            /\ last'.op = "EndTurnEvent"
            /\ last'.entity = get_player
            /\ last'.cost = 10 )
          => ( /\ tracked'[get_player] = 10
               /\ tracked'[a] = 0
               /\ Head(turn_queue') = a
               /\ turn_holder' = a )]_vars

C4_Witness ==
    /\ last.op = "EndTurnEvent"
    /\ last.entity = get_player
    /\ last.cost = 10
    /\ tracked[get_player] = 10
    /\ \E a \in ActorEntities \ {get_player} :
          /\ Range(turn_queue) = {get_player, a}
          /\ tracked[a] = 0
          /\ turn_queue = <<a, get_player>>
          /\ turn_holder = a

AfterActivationPass == last.op = "process_activations"

DistanceToPlayer(e) ==
    LET dx == position[get_player][1] - position[e][1]
        dy == position[get_player][2] - position[e][2]
        adx == IF dx < 0 THEN 0 - dx ELSE dx
        ady == IF dy < 0 THEN 0 - dy ELSE dy
    IN  IF adx > ady THEN adx ELSE ady

C6_ReactivatedTimeSynced ==
    AfterActivationPass =>
        \A e \in last.activated \cap DOMAIN tracked : tracked[e] >= time + 1

C6_Witness ==
    /\ AfterActivationPass
    /\ time > 0
    /\ \E e \in last.activated \cap DOMAIN tracked :
          e \in is_active /\ tracked[e] = time + 1

\* C7: a second activation pass right after a pass changes neither the set
\* of entities holding IsActive nor any time_spent
C7_ActivationIdempotent ==
    AfterActivationPass =>
        /\ process_activations(World).is_active = is_active
        /\ process_activations(World).tracked = tracked

C7_Witness ==
    /\ AfterActivationPass
    /\ last.activated # {}
    /\ \E e \in DOMAIN position : e \notin is_active
    /\ process_activations(World).tracked = tracked

\* C8: after every activation pass every entity without a Position holds
\* IsActive, wherever the player is
C8_PositionlessAlwaysActive ==
    AfterActivationPass =>
        \A e \in Entities \ DOMAIN position : e \in is_active

C8_Witness ==
    /\ AfterActivationPass
    /\ Entities \ DOMAIN position # {}
    /\ \A e \in Entities \ DOMAIN position : e \in is_active
    /\ \E e \in DOMAIN position : e \notin is_active

TopicOf(type) ==
    CASE type \in {"MoveEvent", "UseSkillEvent"} -> "entity"
      [] type = "EndTurnEvent" -> "game"
      [] OTHER -> "message"

RECURSIVE ExpectedCalls(_, _)
ExpectedCalls(type, i) ==
    IF i > Len(Subscribers) THEN <<>>
    ELSE IF TopicOf(type) \in Subscribers[i].topics
         THEN << <<"received", Subscribers[i].name, type>>,
                 <<"returned", Subscribers[i].name, type>> >>
                 \o ExpectedCalls(type, i + 1)
         ELSE ExpectedCalls(type, i + 1)

EntriesOf(type) == SelectSeq(log, LAMBDA x : x[3] = type)

PublishedTypes == {log[i][3] : i \in 1..Len(log)}

\* C9: for every event published in the last step, each subscriber of the
\* event's topic was invoked exactly once, in registration order, each had
\* returned before the next was invoked and all before publish returned
C9_PublishInRegistrationOrder ==
    \A type \in PublishedTypes :
        EntriesOf(type) =
            << <<"publish", "publisher", type>> >>
                \o ExpectedCalls(type, 1)
                \o << <<"published", "publisher", type>> >>

C9_Witness ==
    /\ LogHas("published", "publisher", "EndTurnEvent")
    /\ EntriesOf("EndTurnEvent") =
          << <<"publish", "publisher", "EndTurnEvent">>,
             <<"received", "entity_handler", "EndTurnEvent">>,
             <<"returned", "entity_handler", "EndTurnEvent">>,
             <<"received", "game_handler", "EndTurnEvent">>,
             <<"returned", "game_handler", "EndTurnEvent">>,
             <<"published", "publisher", "EndTurnEvent">> >>

LogIndex(kind, who, type) ==
    CHOOSE i \in 1..Len(log) : log[i] = <<kind, who, type>>

\* every log entry of event `type` lies between the entity handler's receipt
\* of the event `outer` and its return from it
HandledInside(type, outer) ==
    /\ LogHas("publish", "publisher", type)
    /\ LogHas("published", "publisher", type)
    /\ LogHas("received", "entity_handler", outer)
    /\ LogHas("returned", "entity_handler", outer)
    /\ \A i \in 1..Len(log) :
          log[i][3] = type =>
              /\ LogIndex("received", "entity_handler", outer) < i
              /\ i < LogIndex("returned", "entity_handler", outer)

\* C10: when a move bumps into an entity, the use-skill event published by
\* the move handler, and the end-turn event published while handling it, are
\* handled to the end inside the handling of the move event, before the next
\* subscriber gets the move event and before its publish returns
C10_NestedPublishDepthFirst ==
    (last.op = "MoveEvent" /\ LogHas("publish", "publisher", "UseSkillEvent")) =>
        /\ HandledInside("UseSkillEvent", "MoveEvent")
        /\ \/ /\ HandledInside("EndTurnEvent", "UseSkillEvent")
              /\ LogHas("returned", "game_handler", "EndTurnEvent")
              /\ turn_holder = Head(turn_queue)
           \/ /\ HandledInside("MessageEvent", "UseSkillEvent")
              /\ "EndTurnEvent" \notin PublishedTypes
        /\ \A i \in 1..Len(log) :
              log[i][3] # "MoveEvent" =>
                  i < LogIndex("received", "god_handler", "MoveEvent")
        /\ log[Len(log)] = <<"published", "publisher", "MoveEvent">>

C10_Witness ==
    /\ last.op = "MoveEvent"
    /\ HandledInside("UseSkillEvent", "MoveEvent")
    /\ HandledInside("EndTurnEvent", "UseSkillEvent")
    /\ tracked[get_player] >= BasicAttackTimeCost
    /\ turn_holder # get_player

\* C11: when the entity handler raises while handling an end-turn event (the
\* entity has no Tracked component), the error is caught at the dispatch
\* boundary and the remaining subscriber of the event still runs before the
\* publish returns
C11_ErrorCaughtAtDispatch ==
    (last.op = "EndTurnEvent" /\ last.entity \notin DOMAIN tracked) =>
        /\ last.caught = << <<"entity_handler", "EndTurnEvent", "AttributeError">> >>
        /\ LogHas("received", "game_handler", "EndTurnEvent")
        /\ LogHas("returned", "game_handler", "EndTurnEvent")
        /\ LogIndex("received", "entity_handler", "EndTurnEvent")
              < LogIndex("received", "game_handler", "EndTurnEvent")
        /\ log[Len(log)] = <<"published", "publisher", "EndTurnEvent">>

C11_Witness ==
    /\ last.op = "EndTurnEvent"
    /\ last.entity \in GodEntities
    /\ last.caught # <<>>
    /\ LogHas("returned", "game_handler", "EndTurnEvent")
    /\ turn_holder # NoEntity

EndTurnEvents(events) == SelectSeq(events, LAMBDA x : x[1] = "EndTurnEvent")

MessageEvents(events) == SelectSeq(events, LAMBDA x : x[1] = "MessageEvent")

NoWorldChange ==
    UNCHANGED <<position, is_active, tracked, resources, time, turn_queue,
                insert_order, turn_holder, game_state>>

C14_CostPaidAfterResolution ==
    [][(last'.op = "UseSkillEvent" /\ last'.afforded) =>
          \A i \in 1..Len(last'.applied) :
              last'.applied[i][4] = resources[last'.entity].stamina]_vars

OthersOn(tile, e) == {o \in DOMAIN position : o # e /\ position[o] = tile}

\* C18: BasicAttack used on a tile without another entity selects no target
\* tile, applies no effect, changes no health and publishes no event besides
\* the end of the turn
C18_EmptyTileNoEffect ==
    [][(/\ last'.op = "UseSkillEvent"
        /\ last'.afforded
        /\ OthersOn(last'.target, last'.entity) = {}) =>
          /\ Len(last'.applied) = 1
          /\ last'.applied[1][1] = "use"
          /\ last'.applied[1][6] = 0
          /\ \A e \in DOMAIN resources :
                resources'[e].health = resources[e].health
          /\ \A i \in 1..Len(last'.events) :
                last'.events[i][1] \in {"UseSkillEvent", "EndTurnEvent"}]_vars

C18_Witness ==
    /\ last.op = "UseSkillEvent"
    /\ last.afforded
    /\ last.target \in Tiles
    /\ OthersOn(last.target, last.entity) = {}
    /\ last.applied = << <<"use", last.entity, NoEntity,
                           resources[last.entity].stamina, 1, 0>> >>
    /\ \A e \in ActorEntities : resources[e].health = InitHealth

\* the follow-up relation between effects
FollowsDirectly(a) ==
    {<<x, y>> \in EffectNames \X EffectNames :
        y \in Range(a.success[x]) \cup Range(a.fail[x])}

NoSelfFollowUp(a) == \A x \in EffectNames : <<x, x>> \notin FollowsDirectly(a)

\* no effect is reached from itself through follow-ups
AcyclicFollowUps(a) ==
    LET R == FollowsDirectly(a)
        R2 == R \cup {<<x, z>> \in EffectNames \X EffectNames :
                        \E y \in EffectNames : <<x, y>> \in R /\ <<y, z>> \in R}
        R3 == R2 \cup {<<x, z>> \in EffectNames \X EffectNames :
                        \E y \in EffectNames : <<x, y>> \in R2 /\ <<y, z>> \in R}
    IN  \A x \in EffectNames : <<x, x>> \notin R3

\* the effects were taken from the list in the order they were put in it
TakenInQueuedOrder(a) ==
    \A i \in 1..Len(a.popped) : i <= Len(a.queued) => a.popped[i] = a.queued[i]

\* C16: the effects of an activation are processed first-in first-out: they
\* are taken in the order they were put in the list, follow-ups after every
\* effect queued before them, and for Lunge's move and damage the move is
\* applied first
C16_EffectsFirstInFirstOut ==
    activation.tiles > 0 =>
        /\ TakenInQueuedOrder(activation)
        /\ activation.applied # <<>> => activation.applied[1] = "move"

\* C17 as stated: when no effect lists itself as its own follow-up, a started
\* activation empties its list of effects and returns
C17_TerminatesWithoutSelfFollowUp ==
    (activation.pc = "while" /\ NoSelfFollowUp(activation))
        ~> (activation.pc = "done")

\* C17 amended: when no effect is reached from itself through follow-ups, a
\* started activation empties its list of effects and returns
C17_TerminatesWhenAcyclic ==
    (activation.pc = "while" /\ AcyclicFollowUps(activation))
        ~> (activation.pc = "done")

\* an activation without a cycle of follow-ups stays within MaxEffects
AcyclicWithinBound ==
    AcyclicFollowUps(activation) => activation.pc # "overflow"

C17_Witness ==
    /\ activation.pc = "done"
    /\ AcyclicFollowUps(activation)
    /\ activation.tiles = MaxTiles
    /\ activation.effects = <<>>
    /\ activation.success["damage"] = <<"burn">>
    /\ activation.fail["burn"] = <<"move">>
    /\ activation.popped = <<"damage", "burn">>
    /\ activation.applied = <<"damage", "damage">>

\* C19: when a die event is handled for the turn holder and the turn holder
\* is not the player, afterwards neither the turn queue nor the turn holder
\* refers to the dying entity
C19_DeadTurnHolderLeavesSchedule ==
    [][(/\ last'.op = "DieEvent"
        /\ last'.entity = turn_holder
        /\ last'.entity # get_player)
       => (/\ last'.entity \notin Range(turn_queue')
           /\ turn_holder' # last'.entity)]_vars

\* the entity has the components it was created with and is in the queries
Present(e) ==
    /\ e \notin deleted
    /\ e \in PositionEntities => e \in DOMAIN position
    /\ e \in TrackedEntities => e \in DOMAIN tracked
    /\ e \in ResourceEntities => e \in DOMAIN resources
    /\ (e \in TrackedEntities /\ e \in is_active) => e \in ActiveTracked(World)

\* C20: delete only schedules the removal: a scheduled entity keeps its
\* components and stays in the queries, a get_name during the operation that
\* deleted it (the loop over the lifespans included) still finds it, and
\* entities leave the store only when the scheduled deletions are applied
C20_DeleteOnlySchedules ==
    /\ [](\A e \in scheduled : Present(e))
    /\ [](\A i \in 1..Len(last.names) : last.names[i][2] = last.names[i][1])
    /\ [][deleted' # deleted => last'.op = "process_pending_deletions"]_vars

C20_Witness ==
    /\ last.op = "reduce_lifespan_durations"
    /\ Len(last.names) = 4
    /\ scheduled = {"actor_a", "actor_b"}
    /\ \A e \in scheduled : Present(e) /\ lifespan[e] = 0

\* C21: spend_time for an entity without Tracked and apply_damage for an
\* entity without Resources raise no error and leave all state unchanged
C21_MissingComponentRecoverable ==
    [][((last'.op = "spend_time" /\ last'.entity \notin DOMAIN tracked)
        \/ (last'.op = "apply_damage" /\ last'.entity \notin DOMAIN resources))
       => (last'.raised = NoError /\ NoWorldChange)]_vars

\* the target of the last move is off the map or blocks movement
TargetBlocked(target) == target \notin Tiles \/ target \in Walls

\* C22: a move event whose target tile is out of bounds or blocks movement
\* and holds no other entity changes no state, publishes no end-turn event
\* and publishes a message event
C22_BlockedMoveChangesNothing ==
    [][(/\ last'.op = "MoveEvent"
        /\ TargetBlocked(last'.target)
        /\ OthersOn(last'.target, last'.entity) = {})
       => (/\ NoWorldChange
           /\ EndTurnEvents(last'.events) = <<>>
           /\ Len(MessageEvents(last'.events)) = 1)]_vars

C22_Witness ==
    /\ last.op = "MoveEvent"
    /\ last.entity = turn_holder
    /\ last.target \notin Tiles
    /\ Len(MessageEvents(last.events)) = 1
    /\ last.target # position[last.entity]

\* C30: when the turn holder is moved onto a free, unblocked tile, its
\* Position becomes the target tile and one end-turn event for it with time
\* cost 10 is published
C30_MoveEndsTurnOfHolder ==
    [][(/\ last'.op = "MoveEvent"
        /\ last'.entity = turn_holder
        /\ ~TargetBlocked(last'.target)
        /\ OthersOn(last'.target, last'.entity) = {})
       => (/\ position'[last'.entity] = last'.target
           /\ EndTurnEvents(last'.events)
                = << <<"EndTurnEvent", last'.entity, MoveTimeCost>> >>)]_vars

\* C23: after process_fov the tile of another active entity is opaque for an
\* actor unless the actor is strictly taller than that entity; the tile of
\* an entity shorter than the viewer and the viewer's own tile stay as the
\* terrain has them
C23_HeightAwareOcclusion ==
    [][last'.op = "process_fov" =>
        \A viewer \in active_actors :
            /\ position[viewer] \in fov'[viewer].block_sight_map
            /\ \A other \in active_and_position_and_physicality \ {viewer} :
                  IF physicality[viewer].height > physicality[other].height
                  THEN position[other] \in fov'[viewer].block_sight_map
                          \/ \E third \in active_and_position_and_physicality
                                              \ {viewer, other} :
                                /\ position[third] = position[other]
                                /\ physicality[viewer].height
                                      <= physicality[third].height
                  ELSE position[other] \notin fov'[viewer].block_sight_map]_vars

C23_Witness ==
    /\ last.op = "process_fov"
    /\ is_active = Entities
    /\ physicality["player"].height > physicality["actor_a"].height
    /\ physicality["player"].height = physicality["actor_b"].height
    /\ position["actor_a"] \in fov["player"].block_sight_map
    /\ position["actor_b"] \notin fov["player"].block_sight_map
    /\ position["player"] \notin fov["actor_b"].block_sight_map
    /\ position["player"] = <<2, 0>>
    /\ position["actor_a"] = <<0, 0>> /\ position["actor_b"] = <<3, 0>>
    /\ <<0, 0>> \in fov["player"].map
    /\ <<1, 0>> \notin fov["actor_b"].map

\* two active entities at the same distance from an active observer
SameDistancePairs ==
    {t \in active_actors \X active_and_position_and_physicality
                \X active_and_position_and_physicality :
        /\ t[1] # t[2] /\ t[1] # t[3] /\ t[2] # t[3]
        /\ ChebyshevDistance(position[t[1]], position[t[2]])
              = ChebyshevDistance(position[t[1]], position[t[3]])}

\* C24 as stated: of two entities at the same distance from an observer, the
\* taller one does not block the observer's sight through its tile and the
\* shorter one does
C24_TallerOfTwoDoesNotBlock ==
    [][last'.op = "process_fov" =>
        \A t \in SameDistancePairs :
            physicality[t[2]].height > physicality[t[3]].height =>
                /\ position[t[2]] \in fov'[t[1]].block_sight_map
                /\ position[t[3]] \notin fov'[t[1]].block_sight_map]_vars

\* C24 amended: of two entities at the same distance from an observer, one
\* shorter than the observer and one at least as tall as the observer, the
\* one shorter than the observer does not block the observer's sight through
\* its tile and the other one does
C24_ShorterThanObserverDoesNotBlock ==
    [][last'.op = "process_fov" =>
        \A t \in SameDistancePairs :
            (/\ physicality[t[2]].height < physicality[t[1]].height
             /\ physicality[t[3]].height >= physicality[t[1]].height) =>
                /\ position[t[2]] \in fov'[t[1]].block_sight_map
                /\ position[t[3]] \notin fov'[t[1]].block_sight_map]_vars

C24_Witness ==
    /\ last.op = "process_fov"
    /\ <<"player", "actor_a", "actor_b">> \in SameDistancePairs
    /\ physicality["actor_a"].height < physicality["player"].height
    /\ physicality["actor_b"].height >= physicality["player"].height
    /\ position["actor_a"] \in fov["player"].block_sight_map
    /\ position["actor_b"] \notin fov["player"].block_sight_map

\* C25: after process_tile_visibility a tile is visible if and only if it is
\* in the player's field of view and in the light map, whatever it was before
C25_VisibleIsFovAndLight ==
    [][last'.op = "process_tile_visibility" =>
        \A t \in Tiles :
            game_map'.tile_map[t].is_visible
                <=> (t \in fov[get_player].map /\ t \in game_map.light_map)]_vars

C25_Witness ==
    /\ last.op = "process_tile_visibility"
    /\ \E t \in Tiles : game_map.tile_map[t].is_visible
    /\ \E t \in Tiles : ~game_map.tile_map[t].is_visible
    /\ fov[get_player].map \ game_map.light_map # {}
    /\ game_map.light_map \ fov[get_player].map # {}

\* C26: no operation attaches a component of a kind the entity already
\* holds: every add_component call of the activation pass, of learn_skill
\* and of create_actor is for a kind the entity does not hold at the call
C26_NoDuplicateAttach ==
    \A i \in 1..Len(last.attached) : ~last.attached[i][3]

C26_Witness ==
    /\ last.op = "learn_skill"
    /\ last.entity = "god"
    /\ last.attached = << <<"god", "Knowledge", FALSE>> >>
    /\ knowledge["god"].skill_order = <<"lunge">>
    /\ "god" \in is_active

\* C27: a detached kind is not matched any more; an entity to which the kind
\* is attached again matches the queries on it, and the component read is
\* the instance attached last; an entity the activation pass makes active
\* again is in the queries on IsActive through an IsActive attached by that
\* pass
C27_DetachAttachRoundTrip ==
    [][/\ last'.op = "remove_component" =>
              last'.entity \notin DOMAIN lifespan'
       /\ last'.op = "add_component" =>
              /\ last'.entity \in DOMAIN lifespan'
              /\ lifespan'[last'.entity] = last'.cost
       /\ last'.op = "process_activations" =>
              \A e \in is_active' \ is_active :
                  /\ <<e, "IsActive", FALSE>> \in Range(last'.attached)
                  /\ e \in DOMAIN tracked' => tracked'[e] = time + 1]_vars

C27_Witness ==
    /\ last.op = "add_component"
    /\ last.entity = "actor_a"
    /\ last.attached = << <<"actor_a", "Lifespan", FALSE>> >>
    /\ lifespan["actor_a"] = 1
    /\ lifespan["actor_a"] # MaxLifespan

\* C28: delete for an entity that is not in the world, or for no entity,
\* schedules nothing, changes no entity and no component and raises no error
C28_DeleteOfMissingIsNoOp ==
    [][(/\ last'.op = "delete"
        /\ (last'.entity = NoEntity \/ last'.entity \in deleted))
       => (/\ NoWorldChange
           /\ UNCHANGED <<scheduled, deleted, lifespan, knowledge>>
           /\ last'.raised = NoError)]_vars

C28_Witness ==
    /\ last.op = "delete"
    /\ last.entity \in deleted
    /\ scheduled = {}
    /\ last.names = <<>>
    /\ last.entity \notin DOMAIN resources

\* C29: take_turn for an entity without Behaviour raises no error and
\* publishes an end-turn event for that entity
C29_TakeTurnWithoutBehaviourEndsTurn ==
    [][(/\ last'.op = "take_turn"
        /\ ~entity_has_component(World, last'.entity, "Behaviour"))
       => (/\ last'.raised = NoError
           /\ \E i \in 1..Len(last'.events) :
                  /\ last'.events[i][1] = "EndTurnEvent"
                  /\ last'.events[i][2] = last'.entity)]_vars

\* C31: a move event that moves the player to a new tile recomputes the
\* player's field of view from the new position before the handler returns
C31_MoveRecomputesPlayerFov ==
    [][(/\ last'.op = "MoveEvent"
        /\ last'.entity = get_player
        /\ position'[get_player] # position[get_player])
       => last'.recomputed = <<position'[get_player]>>]_vars

\* C32: after an activation pass a positioned entity whose Chebyshev
\* distance to the player equals MAX_ACTIVATION_DISTANCE holds IsActive
C32_RadiusItselfIsWithin ==
    last.op = "process_activations" =>
        \A e \in DOMAIN position :
            ChebyshevDistance(position[get_player], position[e])
                = MAX_ACTIVATION_DISTANCE
            => e \in is_active

\* C33: after process_light_map a tile is lit iff it is in the field of view
\* of a light source that holds IsActive; the light of an earlier pass and of
\* a source that is not active is gone
C33_LitIffSeenByActiveLight ==
    [][last'.op = "process_light_map" =>
          \A t \in Tiles :
              t \in game_map'.light_map <=>
                  \E e \in DOMAIN light_source :
                      /\ e \in is_active
                      /\ e \in DOMAIN position
                      /\ ChebyshevDistance(position[e], t) <= light_source[e].radius
                      /\ Between(position[e], t) \subseteq game_map.block_sight_map]_vars

\* the only light source has lost IsActive and the map is dark
C33_Witness ==
    /\ last.op = "process_light_map"
    /\ DOMAIN light_source = {"actor_b"}
    /\ "actor_b" \notin is_active
    /\ get_player \in is_active
    /\ game_map.light_map = {}

\* C34: judge_action(entity, action) changes, for every god with an
\* attitude towards the action, the opinion of the entity that acted by the
\* opinion_change of the attitude, and no other opinion
C34_JudgeChangesOpinionOfActor ==
    [][last'.op = "judge_action" =>
          \A g \in DOMAIN opinion :
              LET attitudes == get_god_attitudes_data(g)
                  action == last'.target[1]
                  e == last'.entity
              IN  IF action \in DOMAIN attitudes
                  THEN opinion'[g] =
                           With(opinion[g], e,
                                IF e \in DOMAIN opinion[g]
                                THEN opinion[g][e] + attitudes[action].opinion_change
                                ELSE attitudes[action].opinion_change)
                  ELSE opinion'[g] = opinion[g]]_vars

\* the move events of the player among the events published
PlayerMoveEvents(events) ==
    SelectSeq(events, LAMBDA ev : ev[1] = "MoveEvent" /\ ev[2] = get_player)

\* C35: an intent from the input publishes a move event of the player only
\* in PLAYER_TURN, where a direction intent publishes one; in every other
\* game state no move event of the player is published
C35_MoveIntentOnlyInPlayerTurn ==
    [][last'.op = "process_intent" =>
          /\ game_state # "PLAYER_TURN" => PlayerMoveEvents(last'.events) = <<>>
          /\ (game_state = "PLAYER_TURN"
               /\ _get_pressed_direction(last'.target[1]) # <<0, 0>>)
              => Len(PlayerMoveEvents(last'.events)) = 1]_vars

\* a direction intent in the targeting mode has published nothing
C35_Witness ==
    /\ last.op = "process_intent"
    /\ last.target = <<"LEFT">>
    /\ game_state = "TARGETING_MODE"
    /\ last.events = <<>>
    /\ turn_holder = get_player

\* C37: after a die event has been handled the dying entity is not in the
\* turn queue and is not the turn holder, and the turn holder, if there is
\* one, is an entity of the turn queue
C37_TurnHolderIsQueued ==
    [][(/\ last'.op = "DieEvent"
        /\ turn_holder \in Range(turn_queue))
       => (/\ last'.entity \notin Range(turn_queue')
           /\ turn_holder' # last'.entity
           /\ turn_holder' \in Range(turn_queue') \cup {NoEntity})]_vars

\* the tile k steps from the start in the direction of the first step
StepTile(start, first, k) ==
    <<start[1] + k * (first[1] - start[1]), start[2] + k * (first[2] - start[2])>>

\* C38: a move event of distance d > 1 over free, unblocked tiles advances
\* the entity one tile per step, so that it ends d tiles from its start in
\* the direction of the event
C38_MoveAdvancesEveryStep ==
    [][(/\ last'.op = "MoveEvent of distance"
        /\ \A k \in 1..last'.cost :
               LET tile == StepTile(position[last'.entity], last'.target, k)
               IN  /\ ~TargetBlocked(tile)
                   /\ OthersOn(tile, last'.entity) = {})
       => position'[last'.entity]
              = StepTile(position[last'.entity], last'.target, last'.cost)]_vars

\* C39: a use-skill event for an actor that is no god and can afford the
\* skill, a skill without a resource type included, publishes one end-turn
\* event for the actor with the time cost of the skill
C39_AffordedSkillEndsTurn ==
    [][(/\ last'.op = "UseSkillEvent"
        /\ last'.entity \notin GodEntities
        /\ last'.afforded)
       => EndTurnEvents(last'.events)
              = << <<"EndTurnEvent", last'.entity,
                     get_skill_data(last'.target[1]).time_cost>> >>]_vars

\* C40: handling an end-turn event for an entity with cost C adds exactly C
\* to the time_spent of that entity and changes neither the time_spent of
\* another entity nor any other component
C40_EndTurnChargesOnlyItsEntity ==
    [][(/\ last'.op = "EndTurnEvent"
        /\ last'.entity \in DOMAIN tracked)
       => (/\ tracked' = [tracked EXCEPT ![last'.entity] = @ + last'.cost]
           /\ UNCHANGED <<position, is_active, resources, lifespan, knowledge,
                          opinion, scheduled, deleted, vision_vars>>)]_vars

\* actor_a has ended its second turn, the others have ended one
C40_Witness ==
    /\ last.op = "EndTurnEvent"
    /\ last.entity = "actor_a"
    /\ last.cost = MoveTimeCost
    /\ tracked["actor_a"] = 2 * MoveTimeCost
    /\ tracked[get_player] = MoveTimeCost
    /\ tracked["actor_b"] = MoveTimeCost

====
